---- MODULE Spec2Model ----
(***************************************************************************)
(* Model of the signing pipelines of src/src/libs/utils.js (signxcarchive, *)
(* signipaarchive and their helpers) and of the earlier signxcarchive of   *)
(* src/unnamed/part_000.                                                    *)
(*                                                                         *)
(* A JavaScript string is a sequence of one-character strings.  One action *)
(* is one turn of the event loop: the completion callback of a pending     *)
(* child process together with the synchronous code and the promise        *)
(* reactions that run up to the next child process spawned.                *)
(***************************************************************************)
EXTENDS Integers, Sequences, FiniteSets, TLC

(***************************************************************************)
(* Bounds                                                                  *)
(***************************************************************************)
\* largest number of paths the find tool prints in one run
MaxBundles == 3

\* largest number of key names given to fetchKeychainValue
MaxKeys == 2

(***************************************************************************)
(* String helpers (String.prototype.* and path.* as the code uses them)    *)
(***************************************************************************)
EmptyStr == << >>

NL == <<"\n">>

SP == <<" ">>

IsWhite(c) == c \in {" ", "\n", "\t"}

RECURSIVE TrimLeft(_)
TrimLeft(s) ==
  IF s = << >> THEN s
  ELSE IF IsWhite(Head(s)) THEN TrimLeft(Tail(s)) ELSE s

RECURSIVE TrimRight(_)
TrimRight(s) ==
  IF s = << >> THEN s
  ELSE IF IsWhite(s[Len(s)]) THEN TrimRight(SubSeq(s, 1, Len(s) - 1)) ELSE s

\* String.prototype.trim
Trim(s) == TrimRight(TrimLeft(s))

\* String.prototype.includes
Includes(s, sub) ==
  \E i \in 1..(Len(s) - Len(sub) + 1) : SubSeq(s, i, i + Len(sub) - 1) = sub

\* String.prototype.split with a one-character separator
RECURSIVE Split(_, _)
Split(s, sep) ==
  IF \A i \in 1..Len(s) : s[i] # sep THEN << s >>
  ELSE LET k == CHOOSE i \in 1..Len(s) :
                   s[i] = sep /\ \A j \in 1..(i - 1) : s[j] # sep
       IN  << SubSeq(s, 1, k - 1) >> \o Split(SubSeq(s, k + 1, Len(s)), sep)

\* String.prototype.substr(n) with a non-negative start
Substr(s, n) == SubSeq(s, n + 1, Len(s))

\* Array.prototype.slice(0, -n)
SliceDropLast(l, n) == SubSeq(l, 1, Len(l) - n)

\* Array.prototype.join
RECURSIVE JoinWith(_, _)
JoinWith(l, sep) ==
  IF l = << >> THEN EmptyStr
  ELSE IF Len(l) = 1 THEN l[1]
  ELSE l[1] \o sep \o JoinWith(Tail(l), sep)

RECURSIVE StripSlashes(_)
StripSlashes(p) ==
  IF Len(p) > 1 /\ p[Len(p)] = "/" THEN StripSlashes(SubSeq(p, 1, Len(p) - 1))
  ELSE p

\* path.basename (posix)
Basename(p) ==
  LET q == StripSlashes(p)
      parts == Split(q, "/")
  IN  parts[Len(parts)]

\* path.join of two segments (posix)
PathJoin(a, b) ==
  IF a = << >> THEN b
  ELSE IF b = << >> THEN StripSlashes(a)
  ELSE IF a[Len(a)] = "/" THEN a \o b
  ELSE a \o <<"/">> \o b

(***************************************************************************)
(* Literals of the source                                                  *)
(***************************************************************************)
MACOSX == <<"_", "_", "M", "A", "C", "O", "S", "X">>

EXPORT_SUCCEEDED ==
  <<"E", "X", "P", "O", "R", "T", " ", "S", "U", "C", "C", "E", "E", "D", "E", "D">>

FAIL == <<"F", "A", "I", "L">>

outputDir == <<"s", "i", "g", "n", "e", "d">>

DefaultWorkspace == <<"/", "t", "m", "p", "/">>

ZipExt == <<".", "z", "i", "p">>

\* error messages
ExecError == "Command failed"

FindError == "Unable to find xcarchive(s) in package"

ExportFormatError == "Unexpected response from archive export"

PackageError == "Unable to create delivery package"

NoMatchError == "No match to current signing identity"

TypeError == "Cannot read property 'length' of undefined"

(***************************************************************************)
(* Inputs: what the external tools can print                               *)
(***************************************************************************)
\* values shortid.generate() can return
ShortIds == { <<"k">>, <<"m">> }

\* entries the find tool can print for -iname '*.xcarchive', relative to apath
XcCandidates ==
  { <<"A", ".", "x", "c", "a", "r", "c", "h", "i", "v", "e">>,
    <<"B", ".", "x", "c", "a", "r", "c", "h", "i", "v", "e">>,
    <<"_", "_", "M", "A", "C", "O", "S", "X", "/",
      "A", ".", "x", "c", "a", "r", "c", "h", "i", "v", "e">> }

\* entries the find tool can print for -iname '*.ipa', relative to apath
IpaCandidates ==
  { <<"a", ".", "i", "p", "a">>,
    <<"b", ".", "i", "p", "a">>,
    <<"d", "/", "a", ".", "i", "p", "a">>,
    <<"_", "_", "M", "A", "C", "O", "S", "X", "/", "a", ".", "i", "p", "a">> }

\* sequences without repetition of at most n elements of S
InjSeqs(S, n) ==
  UNION { { q \in [1..k -> S] : \A i, j \in 1..k : i # j => q[i] # q[j] } : k \in 0..n }

\* one line per entry, each ended by a newline
RECURSIVE Lines(_)
Lines(l) == IF l = << >> THEN EmptyStr ELSE Head(l) \o NL \o Lines(Tail(l))

ExecFailure == [status |-> "error", stdout |-> EmptyStr, stderr |-> EmptyStr]

ExecOutput(out, err) == [status |-> "ok", stdout |-> out, stderr |-> err]

NotRun == [status |-> "none", stdout |-> EmptyStr, stderr |-> EmptyStr]

FindStderr == <<"f", "i", "n", "d", ":", " ", "f", "a", "i", "l", "e", "d", "\n">>

\* outcomes of  exec(`find ${apath} -iname ...`)
FindResults(fl, ap) ==
  LET cands == IF fl = "ipa" THEN IpaCandidates ELSE XcCandidates
  IN  { ExecFailure, ExecOutput(EmptyStr, FindStderr) }
      \cup { ExecOutput(Lines([i \in 1..Len(q) |-> PathJoin(ap, q[i])]), EmptyStr) :
               q \in InjSeqs(cands, MaxBundles) }

ExportedTo == <<"E", "x", "p", "o", "r", "t", "e", "d", " ", "A", " ", "t", "o", ":", " ">>

ExportedShort == <<"E", "x", "p", "o", "r", "t", "e", "d", " ", "A", " ">>

SucceededLine ==
  <<"*", "*", " ", "E", "X", "P", "O", "R", "T", " ",
    "S", "U", "C", "C", "E", "E", "D", "E", "D", " ", "*", "*", "\n">>

FailedLine ==
  <<"*", "*", " ", "E", "X", "P", "O", "R", "T", " ",
    "F", "A", "I", "L", "E", "D", " ", "*", "*", "\n">>

\* outcomes of one xcodebuild -exportArchive writing to exportPath
ExportResults(exportPath) ==
  { ExecFailure,
    ExecOutput(ExportedTo \o exportPath \o NL \o SucceededLine, EmptyStr),
    ExecOutput(ExportedShort \o exportPath \o NL \o SucceededLine, EmptyStr),
    ExecOutput(ExportedTo \o exportPath \o NL \o FailedLine, EmptyStr) }

ZipWarning == <<"z", "i", "p", " ", "w", "a", "r", "n", "i", "n", "g", "\n">>

\* outcomes of the zip command line  zip ... && echo 'OK' || echo 'FAIL'
ZipResults ==
  { ExecFailure,
    ExecOutput(<<"O", "K", "\n">>, EmptyStr),
    ExecOutput(<<"F", "A", "I", "L", "\n">>, EmptyStr),
    ExecOutput(<<"O", "K", "\n">>, ZipWarning) }

(***************************************************************************)
(* State of one pipeline run                                               *)
(***************************************************************************)
VARIABLES
  flow,          \* orchestrator called: "xc", "xcOld" (part_000), "ipa"
  pc,            \* child process the run is awaiting, "idle" or "done"
  apath,         \* workspace directory of the run
  used,          \* identifiers shortid has generated
  outcome,       \* promise returned to the caller: pending, resolved, rejected
  value,         \* value the promise settled with
  log,           \* messages logged by the catch block
  stages,        \* pipeline stages the run has passed through, in order
  extractRes,    \* result of the mkdir/unzip command
  findResult,    \* result of the find command
  results,       \* located entries the engine iterates over
  exports,       \* xcarchive flow: one export per element, in array order
  items,         \* the items array
  pkgDir,        \* directory the zip command runs for
  pkgItems,      \* items array at the time packaging starts
  zipArgs,       \* file arguments interpolated into the zip command
  deliveryFile,  \* path of the archive the zip command is told to write
  zipResult,     \* result of the zip command
  index,         \* ipa flow: loop index
  certStdout,    \* ipa flow: stdout of the codesign -d pipeline
  certIdentifier,\* ipa flow: extracted authority hint
  cids,          \* ipa flow: identity list fetched for the resolution
  signingIdentifier, \* ipa flow: what uniqueSigningIdentifierForValue gave
  running,       \* ipa flow: tool invocations in progress
  completed,     \* ipa flow: tool invocations that returned
  signCmds,      \* ipa flow: re-sign command lines started
  moved,         \* ipa flow: files moved into apath, with the bundle they hold
  kcPc,          \* fetchKeychainValue: "idle", "lookup" (awaiting exec), "done"
  keyNames,      \* fetchKeychainValue: the keyNames argument
  kcIndex,       \* fetchKeychainValue: index of asyncForEach
  keyPairs,      \* fetchKeychainValue: the keyPairs object
  kcLookups,     \* fetchKeychainValue: security commands spawned, in order
  kcOutcome,     \* fetchKeychainValue: promise returned to the caller
  kcValue        \* fetchKeychainValue: value the promise settled with

pipelineVars ==
  << flow, pc, apath, used, outcome, value, log, stages, extractRes, findResult,
     results, exports, items, pkgDir, pkgItems, zipArgs, deliveryFile,
     zipResult, index, certStdout, certIdentifier, cids, signingIdentifier,
     running, completed, signCmds, moved >>

kcVars == << kcPc, keyNames, kcIndex, keyPairs, kcLookups, kcOutcome, kcValue >>

vars == << pipelineVars, kcVars >>

ipaVars ==
  << index, certStdout, certIdentifier, cids, signingIdentifier, running,
     completed, signCmds, moved >>

pkgVars == << pkgDir, pkgItems, zipArgs, deliveryFile, zipResult, used >>

\* no identifier has been resolved for the bundle
NotResolved == [kind |-> "none", v |-> EmptyStr]

\* values a settled promise carries
NoValue == [kind |-> "none", msg |-> "", path |-> EmptyStr]

Undefined == [kind |-> "undefined", msg |-> "", path |-> EmptyStr]

ErrorValue(m) == [kind |-> "error", msg |-> m, path |-> EmptyStr]

PathValue(p) == [kind |-> "path", msg |-> "", path |-> p]

Init ==
  /\ flow = "none"
  /\ pc = "idle"
  /\ apath = EmptyStr
  /\ used = {}
  /\ outcome = "pending"
  /\ value = NoValue
  /\ log = << >>
  /\ stages = << >>
  /\ extractRes = "none"
  /\ findResult = NotRun
  /\ results = << >>
  /\ exports = << >>
  /\ items = << >>
  /\ pkgDir = EmptyStr
  /\ pkgItems = << >>
  /\ zipArgs = << >>
  /\ deliveryFile = EmptyStr
  /\ zipResult = NotRun
  /\ index = 0
  /\ certStdout = EmptyStr
  /\ certIdentifier = EmptyStr
  /\ cids = << >>
  /\ signingIdentifier = NotResolved
  /\ running = {}
  /\ completed = {}
  /\ signCmds = << >>
  /\ moved = {}
  /\ kcPc = "idle"
  /\ keyNames = << >>
  /\ kcIndex = 0
  /\ keyPairs = << >>
  /\ kcLookups = << >>
  /\ kcOutcome = "pending"
  /\ kcValue = NoValue

(***************************************************************************)
(* How a run ends                                                          *)
(***************************************************************************)
\* catch (error) { log(error.message) }  followed by  return Promise.reject()
Caught(m) ==
  /\ log' = Append(log, m)
  /\ stages' = Append(stages, "Failed")
  /\ outcome' = "rejected"
  /\ value' = Undefined
  /\ pc' = "done"

\* an error that leaves the async function: its promise rejects with the error
Thrown(m) ==
  /\ log' = log
  /\ stages' = Append(stages, "Failed")
  /\ outcome' = "rejected"
  /\ value' = ErrorValue(m)
  /\ pc' = "done"

\* an error raised by a stage inside the orchestrator's body
StageError(m) == IF flow = "ipa" THEN Thrown(m) ELSE Caught(m)

\* the async function returns a path
Resolved(p) ==
  /\ log' = log
  /\ stages' = Append(stages, "Packaged")
  /\ outcome' = "resolved"
  /\ value' = PathValue(p)
  /\ pc' = "done"

\* stages completed when a run awaiting `from` goes on to await `next`: the
\* call starts the run, the extract command's return ends extraction, find's
\* return ends location, and the zip command is spawned once the bundles
\* have been processed (at once, when the ipa loop has nothing to iterate)
Reached(from, next) ==
  CASE next = "extract" -> << "Start" >>
    [] next = "find" -> << "Extracted" >>
    [] next = "package" /\ from = "find" -> << "Located", "Processed" >>
    [] next = "package" /\ from # "find" -> << "Processed" >>
    [] next # "package" /\ from = "find" -> << "Located" >>
    [] OTHER -> << >>

\* the run goes on to await the next child process
Await(next) ==
  /\ pc' = next
  /\ stages' = stages \o Reached(pc, next)
  /\ UNCHANGED << log, outcome, value >>

(***************************************************************************)
(* Calls and the extract stage                                             *)
(***************************************************************************)
\* const apath = path.join(workspace, shortid.generate()); exec(mkdir && unzip)
extractArchiveContents(fl, id) ==
  /\ flow' = fl
  /\ apath' = PathJoin(DefaultWorkspace, id)
  /\ used' = used \cup {id}
  /\ Await("extract")
  /\ UNCHANGED << extractRes, findResult, results, exports, items, pkgDir,
                  pkgItems, zipArgs, deliveryFile, zipResult >>
  /\ UNCHANGED ipaVars
  /\ UNCHANGED kcVars

signxcarchive ==
  /\ pc = "idle"
  /\ kcPc = "idle"
  /\ \E id \in ShortIds \ used : extractArchiveContents("xc", id)

signxcarchive_part000 ==
  /\ pc = "idle"
  /\ kcPc = "idle"
  /\ \E id \in ShortIds \ used : extractArchiveContents("xcOld", id)

signipaarchive ==
  /\ pc = "idle"
  /\ kcPc = "idle"
  /\ \E id \in ShortIds \ used : extractArchiveContents("ipa", id)

\* the mkdir/unzip command returns; the find command is spawned
ExtractDone ==
  /\ pc = "extract"
  /\ \E ok \in BOOLEAN :
       /\ extractRes' = IF ok THEN "ok" ELSE "error"
       /\ IF ok THEN Await("find") ELSE StageError(ExecError)
  /\ UNCHANGED << flow, apath, used, findResult, results, exports, items,
                  pkgDir, pkgItems, zipArgs, deliveryFile, zipResult >>
  /\ UNCHANGED ipaVars
  /\ UNCHANGED kcVars

(***************************************************************************)
(* Delivery packager                                                       *)
(***************************************************************************)
\* the zip command line is spawned
SpawnZip(id, dir, its, args, file) ==
  /\ pkgDir' = dir
  /\ pkgItems' = its
  /\ zipArgs' = args
  /\ deliveryFile' = file
  /\ zipResult' = [status |-> "running", stdout |-> EmptyStr, stderr |-> EmptyStr]
  /\ used' = used \cup {id}
  /\ Await("package")

\* variant: the items are named as given
Basenames_AsGiven(its) == its

\* items.map(i => path.basename(i))
Basenames(its) == [i \in 1..Len(its) |-> Basename(its[i])]

\* packageForDelivery up to its await; id is the value of shortid.generate()
packageForDelivery(id, dir, its) ==
  SpawnZip(id, dir, its, Basenames(its), PathJoin(dir, id \o ZipExt))

\* the inline packaging of part_000: ${items} is the array joined with commas
packageInline(id, its) ==
  SpawnZip(id, EmptyStr, its,
           IF its = << >> THEN << >> ELSE << JoinWith(its, <<",">>) >>,
           PathJoin(apath, id \o ZipExt))

\* variant: only the error stream is looked at
ZipFailed_StderrOnly(r) == r.stderr # EmptyStr

\* zipResult.stderr !== '' || zipResult.stdout.includes('FAIL')
ZipFailed(r) == r.stderr # EmptyStr \/ Includes(r.stdout, FAIL)

\* part_000 awaits the zip command inside its try block; utils.js returns the
\* promise of packageForDelivery without awaiting it, so that its rejection
\* settles the orchestrator's promise directly
PackagingError(m) == IF flow = "xcOld" THEN Caught(m) ELSE Thrown(m)

\* the zip command returns
PackageDone ==
  /\ pc = "package"
  /\ \E r \in ZipResults :
       /\ zipResult' = r
       /\ IF r.status = "error" THEN PackagingError(ExecError)
          ELSE IF ZipFailed(r) THEN PackagingError(PackageError)
          ELSE Resolved(deliveryFile)
  /\ UNCHANGED << flow, apath, used, extractRes, findResult, results, exports,
                  items, pkgDir, pkgItems, zipArgs, deliveryFile >>
  /\ UNCHANGED ipaVars
  /\ UNCHANGED kcVars

(***************************************************************************)
(* xcarchive flow                                                          *)
(***************************************************************************)
\* findResult.stdout.trim().split('\n')
XcElements(stdout) == Split(Trim(stdout), "\n")

\* path.join(apath, outputDir, path.basename(element).split('.')[0])
ExportPath(ap, element) ==
  PathJoin(PathJoin(ap, outputDir), Split(Basename(element), ".")[1])

\* .map(async element => exec(`xcodebuild -exportArchive ...`))
SpawnExports(ap, elements) ==
  [i \in 1..Len(elements) |->
     [element |-> elements[i], exportPath |-> ExportPath(ap, elements[i]),
      status |-> "running", stdout |-> EmptyStr, seq |-> 0]]

\* the find command of signxcarchive returns; every export is spawned
XcFindDone ==
  /\ pc = "find"
  /\ flow \in {"xc", "xcOld"}
  /\ \E r \in FindResults(flow, apath) :
       /\ findResult' = r
       /\ IF r.status = "error"
            THEN StageError(ExecError) /\ UNCHANGED << results, exports >>
          ELSE IF r.stderr # EmptyStr
            THEN StageError(FindError) /\ UNCHANGED << results, exports >>
          ELSE /\ results' = XcElements(r.stdout)
               /\ exports' = SpawnExports(apath, XcElements(r.stdout))
               /\ Await("export")
  /\ UNCHANGED << flow, apath, used, extractRes, items, pkgDir, pkgItems,
                  zipArgs, deliveryFile, zipResult >>
  /\ UNCHANGED ipaVars
  /\ UNCHANGED kcVars

\* Promise.all rejects as soon as one of its promises rejects
PromiseAllRejected(exps) == \E i \in 1..Len(exps) : exps[i].status = "error"

\* variant: fulfils with the first fulfilled promise
PromiseAllFulfilled_First(exps) == \E i \in 1..Len(exps) : exps[i].status = "ok"

\* Promise.all fulfils when all of its promises are fulfilled
PromiseAllFulfilled(exps) == \A i \in 1..Len(exps) : exps[i].status = "ok"

\* number of exports that have returned
Settled(exps) == Cardinality({ i \in 1..Len(exps) : exps[i].status # "running" })

\* variant: the results in the order in which the promises settled
Response_BySettlement(exps) ==
  [k \in 1..Len(exps) |-> exps[CHOOSE i \in 1..Len(exps) : exps[i].seq = k].stdout]

\* the array Promise.all fulfils with: the results in the order of the promises
Response(exps) == [i \in 1..Len(exps) |-> exps[i].stdout]

\* variant: looks for 'EXPORT' only
ExportSucceeded_AnyExportLine(stdout) ==
  Includes(stdout, <<"E", "X", "P", "O", "R", "T">>)

\* stdout.includes('EXPORT SUCCEEDED')
ExportSucceeded(stdout) == Includes(stdout, EXPORT_SUCCEEDED)

\* stdout.trim().split('\n')[0].split(' ')
Components(stdout) == Split(Split(Trim(stdout), "\n")[1], " ")

\* variant: components.length > 4
BadComponents_OnlyLonger(components) == Len(components) > 4

\* components.length !== 4
BadComponents(components) == Len(components) # 4

\* response.forEach(...): the items collected, and whether the callback threw
RECURSIVE CollectItems(_, _)
CollectItems(response, acc) ==
  IF response = << >> THEN [threw |-> FALSE, items |-> acc]
  ELSE IF ExportSucceeded(Head(response))
    THEN LET components == Components(Head(response))
         IN  IF BadComponents(components)
               THEN [threw |-> TRUE, items |-> acc]
               ELSE CollectItems(Tail(response),
                                 Append(acc, components[Len(components)]))
    ELSE CollectItems(Tail(response), acc)

\* the packaging step of the two signxcarchive versions
XcPackage(id, its) ==
  IF flow = "xcOld" THEN packageInline(id, its)
  ELSE packageForDelivery(id, PathJoin(apath, outputDir), its)

\* one xcodebuild returns; when it settles Promise.all the run goes on
ExportDone(i) ==
  /\ flow \in {"xc", "xcOld"}
  /\ i \in 1..Len(exports)
  /\ exports[i].status = "running"
  /\ \E r \in ExportResults(exports[i].exportPath) :
       LET exps == [exports EXCEPT ![i] =
                      [@ EXCEPT !.status = r.status, !.stdout = r.stdout,
                                !.seq = Settled(exports) + 1]]
           c == CollectItems(Response(exps), << >>)
       IN  /\ exports' = exps
           /\ IF pc # "export"
                THEN UNCHANGED << pc, log, stages, outcome, value, items >>
                     /\ UNCHANGED pkgVars
              ELSE IF PromiseAllRejected(exps)
                THEN StageError(ExecError) /\ UNCHANGED items
                     /\ UNCHANGED pkgVars
              ELSE IF ~PromiseAllFulfilled(exps)
                THEN UNCHANGED << pc, log, stages, outcome, value, items >>
                     /\ UNCHANGED pkgVars
              ELSE IF c.threw
                THEN Caught(ExportFormatError) /\ items' = c.items
                     /\ UNCHANGED pkgVars
              ELSE /\ items' = c.items
                   /\ \E id \in ShortIds \ used : XcPackage(id, c.items)
  /\ UNCHANGED << flow, apath, extractRes, findResult, results >>
  /\ UNCHANGED ipaVars
  /\ UNCHANGED kcVars

(***************************************************************************)
(* Signing identity resolver                                               *)
(***************************************************************************)
\* one line of  security find-identity -p codesigning -v
IdentityLine(n, id, name) ==
  <<" ", " ", n, ")", " ", id, " ", "\"">> \o name \o <<"\"", "\n">>

FoundLine ==
  <<" ", " ", " ", " ", " ", "v", "a", "l", "i", "d", " ",
    "i", "d", "e", "n", "t", "i", "t", "i", "e", "s", " ", "f", "o", "u", "n", "d", "\n">>

\* identities the trust store can hold: identifier and name
Identities == { <<"X", <<"a", "b">> >>, <<"Y", <<"c", "d">> >> }

Digits == <<"1", "2", "3", "4", "5", "6", "7", "8", "9">>

\* outcomes of  exec(`security find-identity -p codesigning -v`)
SecurityResults ==
  { ExecFailure }
  \cup { ExecOutput(
           JoinWith([i \in 1..Len(q) |-> IdentityLine(Digits[i], q[i][1], q[i][2])],
                    EmptyStr) \o FoundLine, EmptyStr) :
           q \in InjSeqs(Identities, Cardinality(Identities)) }

\* outcomes of the codesign -d | grep 'Authority' | head -1 | awk pipeline
HintResults ==
  { ExecFailure,
    ExecOutput(EmptyStr, EmptyStr),
    ExecOutput(<<"a", "b", "\n">>, EmptyStr),
    ExecOutput(<<"c", "d", "\n">>, EmptyStr) }

\* stdout.split('\n').slice(0, -2).map(item => item.trim().substr(3))
currentValidSigningIdentities(stdout) ==
  LET lines == SliceDropLast(Split(stdout, "\n"), 2)
  IN  [i \in 1..Len(lines) |-> Substr(Trim(lines[i]), 3)]

\* Array.prototype.find with the callback  item => item.includes(value)
RECURSIVE FindIncluding(_, _)
FindIncluding(list, v) ==
  IF list = << >> THEN [found |-> FALSE, item |-> EmptyStr]
  ELSE IF Includes(Head(list), v) THEN [found |-> TRUE, item |-> Head(list)]
  ELSE FindIncluding(Tail(list), v)

\* variant: the first identity of the list is taken when nothing matches
uniqueSigningIdentifierForValue_FirstIdentity(list, v) ==
  LET matches == FindIncluding(list, v)
  IN  IF matches.found
        THEN [kind |-> "value", v |-> Trim(Split(matches.item, " ")[1])]
      ELSE IF list = << >> THEN [kind |-> "undefined", v |-> EmptyStr]
      ELSE [kind |-> "value", v |-> Trim(Split(list[1], " ")[1])]

\* uniqueSigningIdentifierForValue after the list has been fetched:
\* find returns undefined when nothing matches and  matches.length  then throws
uniqueSigningIdentifierForValue(list, v) ==
  LET matches == FindIncluding(list, v)
  IN  IF ~matches.found THEN [kind |-> "throw", v |-> EmptyStr]
      ELSE IF Len(matches.item) = 0 THEN [kind |-> "undefined", v |-> EmptyStr]
      ELSE [kind |-> "value", v |-> Trim(Split(matches.item, " ")[1])]

(***************************************************************************)
(* ipa flow                                                                *)
(***************************************************************************)
\* .filter(item => item && !item.includes('__MACOSX'))
RECURSIVE FilterIpa(_)
FilterIpa(l) ==
  IF l = << >> THEN << >>
  ELSE IF Head(l) # EmptyStr /\ ~Includes(Head(l), MACOSX)
    THEN << Head(l) >> \o FilterIpa(Tail(l))
    ELSE FilterIpa(Tail(l))

\* findResult.stdout.split('\n').filter(...)
IpaResults(stdout) == FilterIpa(Split(stdout, "\n"))

\* path.basename(value.trim())
OutFileName(v) == Basename(Trim(v))

Invocation(i, t) == [bundle |-> i, tool |-> t]

Returned(i, t, ok) == [bundle |-> i, tool |-> t, ok |-> ok]

\* variant: exec(...) without await, the invocation is still in progress
Unfinished_NoAwait(run, done) == run

\* await exec(...): the code after it runs once the invocation has returned
Unfinished(run, done) == run \ {done}

\* variant: items.unshift(outFileName)
PushItem_Unshift(its, v) == << OutFileName(v) >> \o its

\* items.push(outFileName)
PushItem(its, v) == Append(its, OutFileName(v))

\* variant: index < results.length - 1
LoopContinues_StopsEarly(idx, res) == idx < Len(res) - 1

\* for (...; index < results.length; ...)
LoopContinues(idx, res) == idx < Len(res)

\* the for loop at index idx: the next bundle is started, or the loop is left
\* and packageForDelivery(apath, items) is called
Loop(idx, res, its, id, run) ==
  /\ index' = idx
  /\ certStdout' = EmptyStr
  /\ certIdentifier' = EmptyStr
  /\ cids' = << >>
  /\ signingIdentifier' = NotResolved
  /\ IF LoopContinues(idx, res)
       THEN /\ items' = PushItem(its, res[idx + 1])
            /\ running' = run \cup { Invocation(idx, "unzip") }
            /\ Await("ipaUnzip")
            /\ UNCHANGED pkgVars
       ELSE /\ items' = its
            /\ running' = run
            /\ packageForDelivery(id, apath, its)

\* the find command of signipaarchive returns
IpaFindDone ==
  /\ pc = "find"
  /\ flow = "ipa"
  /\ \E r \in FindResults(flow, apath) :
       /\ findResult' = r
       /\ IF r.status = "error"
            THEN /\ StageError(ExecError)
                 /\ UNCHANGED << results, items, index, certStdout,
                                 certIdentifier, cids, signingIdentifier, running >>
                 /\ UNCHANGED pkgVars
          ELSE IF r.stderr # EmptyStr
            THEN /\ StageError(FindError)
                 /\ UNCHANGED << results, items, index, certStdout,
                                 certIdentifier, cids, signingIdentifier, running >>
                 /\ UNCHANGED pkgVars
          ELSE /\ results' = IpaResults(r.stdout)
               /\ \E id \in ShortIds \ used :
                    Loop(0, IpaResults(r.stdout), << >>, id, running)
  /\ UNCHANGED << flow, apath, extractRes, exports, completed, signCmds, moved >>
  /\ UNCHANGED kcVars

\* the unzip of the ipa returns; extractCurrentSigningIdentifier is called
IpaUnzipDone ==
  /\ pc = "ipaUnzip"
  /\ \E ok \in BOOLEAN :
       /\ completed' = completed \cup { Returned(index, "unzip", ok) }
       /\ IF ok
            THEN /\ running' = Unfinished(running, Invocation(index, "unzip"))
                               \cup { Invocation(index, "codesign-d") }
                 /\ Await("ipaHint")
            ELSE /\ running' = Unfinished(running, Invocation(index, "unzip"))
                 /\ StageError(ExecError)
  /\ UNCHANGED << flow, apath, extractRes, findResult, results, exports, items,
                  index, certStdout, certIdentifier, cids, signingIdentifier,
                  signCmds, moved >>
  /\ UNCHANGED pkgVars
  /\ UNCHANGED kcVars

\* the codesign -d pipeline returns; currentValidSigningIdentities is called
HintDone ==
  /\ pc = "ipaHint"
  /\ \E r \in HintResults :
       /\ completed' = completed \cup { Returned(index, "codesign-d", r.status = "ok") }
       /\ IF r.status = "ok"
            THEN /\ certStdout' = r.stdout
                 /\ running' = Unfinished(running, Invocation(index, "codesign-d"))
                               \cup { Invocation(index, "find-identity-hint") }
                 /\ Await("ipaHintList")
            ELSE /\ UNCHANGED certStdout
                 /\ running' = Unfinished(running, Invocation(index, "codesign-d"))
                 /\ StageError(ExecError)
  /\ UNCHANGED << flow, apath, extractRes, findResult, results, exports, items,
                  index, certIdentifier, cids, signingIdentifier, signCmds, moved >>
  /\ UNCHANGED pkgVars
  /\ UNCHANGED kcVars

\* the identity listing inside extractCurrentSigningIdentifier returns; its
\* list is dropped, stdout.trim() is the hint, and
\* uniqueSigningIdentifierForValue fetches the list again
HintListDone ==
  /\ pc = "ipaHintList"
  /\ \E r \in SecurityResults :
       /\ completed' =
            completed \cup { Returned(index, "find-identity-hint", r.status = "ok") }
       /\ IF r.status = "ok"
            THEN /\ certIdentifier' = Trim(certStdout)
                 /\ running' =
                      Unfinished(running, Invocation(index, "find-identity-hint"))
                        \cup { Invocation(index, "find-identity-resolve") }
                 /\ Await("ipaResolve")
            ELSE /\ UNCHANGED certIdentifier
                 /\ running' =
                      Unfinished(running, Invocation(index, "find-identity-hint"))
                 /\ StageError(ExecError)
  /\ UNCHANGED << flow, apath, extractRes, findResult, results, exports, items,
                  index, certStdout, cids, signingIdentifier, signCmds, moved >>
  /\ UNCHANGED pkgVars
  /\ UNCHANGED kcVars

\* if (!signingIdentifier)
NoIdentifier(sid) == sid.kind = "undefined" \/ sid.v = EmptyStr

\* the identity listing of uniqueSigningIdentifierForValue returns; the
\* identifier is resolved and the re-sign command line is spawned
ResolveDone ==
  /\ pc = "ipaResolve"
  /\ \E r \in SecurityResults :
       LET list == currentValidSigningIdentities(r.stdout)
           sid == uniqueSigningIdentifierForValue(list, certIdentifier)
           rest == Unfinished(running, Invocation(index, "find-identity-resolve"))
       IN  /\ completed' =
                completed \cup { Returned(index, "find-identity-resolve", r.status = "ok") }
           /\ IF r.status = "error"
                THEN StageError(ExecError) /\ running' = rest
                     /\ UNCHANGED << cids, signingIdentifier, signCmds >>
              ELSE IF sid.kind = "throw"
                THEN StageError(TypeError) /\ running' = rest
                     /\ cids' = list /\ signingIdentifier' = sid /\ UNCHANGED signCmds
              ELSE IF NoIdentifier(sid)
                THEN StageError(NoMatchError) /\ running' = rest
                     /\ cids' = list /\ signingIdentifier' = sid /\ UNCHANGED signCmds
              ELSE /\ cids' = list /\ signingIdentifier' = sid
                   /\ signCmds' = Append(signCmds,
                        [bundle |-> index, identity |-> sid.v,
                         file |-> OutFileName(results[index + 1])])
                   /\ running' = rest \cup { Invocation(index, "resign") }
                   /\ Await("ipaSign")
  /\ UNCHANGED << flow, apath, extractRes, findResult, results, exports, items,
                  index, certStdout, certIdentifier, moved >>
  /\ UNCHANGED pkgVars
  /\ UNCHANGED kcVars

\* mv "${outFileName}" "${apath}": a file of that name in apath is replaced
MoveInto(files, name, i) ==
  { f \in files : f.name # name } \cup { [name |-> name, bundle |-> i] }

\* the re-sign command line (rm, codesign, zip, mv) returns; the loop goes on
SignDone ==
  /\ pc = "ipaSign"
  /\ \E ok \in BOOLEAN :
       /\ completed' = completed \cup { Returned(index, "resign", ok) }
       /\ IF ok
            THEN /\ moved' = MoveInto(moved, OutFileName(results[index + 1]), index)
                 /\ \E id \in ShortIds \ used :
                      Loop(index + 1, results, items, id,
                           Unfinished(running, Invocation(index, "resign")))
            ELSE /\ StageError(ExecError)
                 /\ running' = Unfinished(running, Invocation(index, "resign"))
                 /\ UNCHANGED << moved, items, index, certStdout, certIdentifier,
                                 cids, signingIdentifier >>
                 /\ UNCHANGED pkgVars
  /\ UNCHANGED << flow, apath, extractRes, findResult, results, exports, signCmds >>
  /\ UNCHANGED kcVars

(***************************************************************************)
(* Keychain lookup (part_000)                                              *)
(***************************************************************************)
KeychainError == "Unable to find the keychain! Error: Command failed"

\* key names a caller can ask for
KeyNameSet == { <<"p">>, <<"q">> }

\* the keyNames arrays given to fetchKeychainValue, repeated names included
KeyNameLists == UNION { [1..k -> KeyNameSet] : k \in 0..MaxKeys }

\* outcomes of  exec(`security find-generic-password -w -s name -a account`)
KeychainResults ==
  { ExecFailure,
    ExecOutput(EmptyStr, EmptyStr),
    ExecOutput(<<"s", "\n">>, EmptyStr),
    ExecOutput(<<"t", "\n">>, EmptyStr),
    ExecOutput(<<" ", "s", "\n", "t", "\n">>, EmptyStr) }

\* the value of a settled promise of fetchKeychainValue
KeychainObject(pairs) == [kind |-> "object", msg |-> "", pairs |-> pairs]

KeychainFailure(m) == [kind |-> "error", msg |-> m, pairs |-> << >>]

\* tmp.stdout.trim().split('\n')[0]
FirstLine(stdout) == Split(Trim(stdout), "\n")[1]

\* keyPairs[name] = value
SetPair(pairs, name, v) ==
  [n \in DOMAIN pairs \cup {name} |-> IF n = name THEN v ELSE pairs[n]]

\* one step of asyncForEach at index idx: the callback spawns the security
\* command for array[idx], or the loop is left and keyPairs is returned
ForEach(names, idx, pairs, lookups) ==
  /\ kcIndex' = idx
  /\ keyPairs' = pairs
  /\ IF idx < Len(names)
       THEN /\ kcLookups' = Append(lookups,
                   [name |-> names[idx + 1], status |-> "running", stdout |-> EmptyStr])
            /\ kcPc' = "lookup"
            /\ UNCHANGED << kcOutcome, kcValue >>
       ELSE /\ kcLookups' = lookups
            /\ kcPc' = "done"
            /\ kcOutcome' = "resolved"
            /\ kcValue' = KeychainObject(pairs)

fetchKeychainValue ==
  /\ pc = "idle"
  /\ kcPc = "idle"
  /\ \E names \in KeyNameLists :
       /\ keyNames' = names
       /\ ForEach(names, 0, << >>, << >>)
  /\ UNCHANGED pipelineVars

\* variant: the rejection of exec is swallowed
LookupFailed_Swallowed(r) == FALSE

\* await exec(...) throws when the command fails
LookupFailed(r) == r.status = "error"

\* the security command returns
LookupDone ==
  /\ kcPc = "lookup"
  /\ \E r \in KeychainResults :
       LET done == [kcLookups EXCEPT ![Len(kcLookups)] =
                      [@ EXCEPT !.status = r.status, !.stdout = r.stdout]]
       IN  IF LookupFailed(r)
             THEN /\ kcLookups' = done
                  /\ kcPc' = "done"
                  /\ kcOutcome' = "rejected"
                  /\ kcValue' = KeychainFailure(KeychainError)
                  /\ UNCHANGED << kcIndex, keyPairs >>
             ELSE ForEach(keyNames, kcIndex + 1,
                          SetPair(keyPairs, keyNames[kcIndex + 1], FirstLine(r.stdout)),
                          done)
  /\ UNCHANGED keyNames
  /\ UNCHANGED pipelineVars

(***************************************************************************)
(* Specification                                                           *)
(***************************************************************************)
Next ==
  \/ signxcarchive
  \/ signxcarchive_part000
  \/ signipaarchive
  \/ ExtractDone
  \/ XcFindDone
  \/ \E i \in 1..Len(exports) : ExportDone(i)
  \/ PackageDone
  \/ IpaFindDone
  \/ IpaUnzipDone
  \/ HintDone
  \/ HintListDone
  \/ ResolveDone
  \/ SignDone
  \/ fetchKeychainValue
  \/ LookupDone

Spec == Init /\ [][Next]_vars

(***************************************************************************)
(* Properties                                                              *)
(***************************************************************************)
IsXc == flow \in {"xc", "xcOld"}

ExportsRunning == \E i \in 1..Len(exports) : exports[i].status = "running"

\* the first output line of a completed export has a token count other than 4
\* although the output carries the success marker
MalformedSuccess(e) ==
  /\ e.status = "ok"
  /\ Includes(e.stdout, EXPORT_SUCCEEDED)
  /\ Len(Split(Split(Trim(e.stdout), "\n")[1], " ")) # 4

ExtractFailed == extractRes = "error"

LocateFailed == findResult.status = "error" \/ findResult.stderr # EmptyStr

ExportToolFailed == \E i \in 1..Len(exports) : exports[i].status = "error"

ExportMalformed == \E i \in 1..Len(exports) : MalformedSuccess(exports[i])

\* the identity list was fetched for the current bundle
ResolutionRan == Returned(index, "find-identity-resolve", TRUE) \in completed

NoIdentityContainsHint ==
  \A i \in 1..Len(cids) : ~Includes(cids[i], certIdentifier)

ResignFailed ==
  \/ \E c \in completed : ~c.ok
  \/ ResolutionRan /\ NoIdentityContainsHint

PackageFailed ==
  \/ zipResult.status = "error"
  \/ zipResult.status = "ok"
       /\ (zipResult.stderr # EmptyStr \/ Includes(zipResult.stdout, FAIL))

PackagingStarted == zipResult.status # "none"

\* C1: a run of signxcarchive or signipaarchive is pending until it ends, and
\* it ends either resolved with the one delivery archive path or rejected
\* with no path; once a stage (extract, locate, export/re-sign, package) has
\* failed the run is rejected.
C1_ResolvedOrRejected ==
  /\ (outcome = "pending") <=> (pc # "done")
  /\ outcome = "resolved" =>
       /\ value = PathValue(deliveryFile)
       /\ deliveryFile # EmptyStr
       /\ ~(ExtractFailed \/ LocateFailed \/ ExportToolFailed \/ ExportMalformed
              \/ ResignFailed \/ PackageFailed)
  /\ outcome = "rejected" => value.kind \in {"undefined", "error"}
  /\ (ExtractFailed \/ LocateFailed \/ ExportToolFailed \/ ResignFailed
        \/ PackageFailed \/ (ExportMalformed /\ ~ExportsRunning))
       => outcome = "rejected"

C1_Witness ==
  /\ flow = "xc"
  /\ zipResult.status = "ok"
  /\ Includes(zipResult.stdout, FAIL)
  /\ outcome = "rejected"

ZeroBundlesFound ==
  /\ findResult.status = "ok"
  /\ findResult.stderr = EmptyStr
  /\ Trim(findResult.stdout) = EmptyStr

\* C2: when the find command succeeds with empty output the run fails as a
\* whole, in both flows: no export or re-sign is started, packaging is not
\* started and no delivery archive path is returned.
C2_ZeroBundlesFailRun ==
  ZeroBundlesFound =>
    /\ exports = << >>
    /\ signCmds = << >>
    /\ ~PackagingStarted
    /\ outcome = "rejected"

\* C3: in the ipa flow, when no valid identity contains the extracted
\* authority string (an empty list included) the run is rejected with the
\* error 'No match to current signing identity' and nothing is packaged.
C3_NoMatchingIdentityError ==
  (flow = "ipa" /\ ResolutionRan /\ NoIdentityContainsHint) =>
    /\ outcome = "rejected"
    /\ value = ErrorValue(NoMatchError)
    /\ ~PackagingStarted

\* C4: in the ipa flow, when the authority hint of a bundle is the empty
\* string and the valid-identity list is not empty, no re-sign command is
\* started for the bundle and the run is rejected.
C4_EmptyHintNeverSigned ==
  (flow = "ipa" /\ ResolutionRan /\ certIdentifier = EmptyStr /\ cids # << >>) =>
    /\ \A k \in 1..Len(signCmds) : signCmds[k].bundle # index
    /\ outcome = "rejected"

\* C5 as stated: in the xcarchive flow, once the exports have returned and
\* one of them reports success with a first line of other than 4 components,
\* the run is rejected with the unexpected-output error and nothing is
\* packaged, whatever the other exports of the batch did.
C5_MalformedAlwaysUnexpectedOutput ==
  (IsXc /\ ExportMalformed /\ ~ExportsRunning) =>
    /\ outcome = "rejected"
    /\ log = << ExportFormatError >>
    /\ ~PackagingStarted

\* C5 amended: in the xcarchive flow, when an export reports success with a
\* first line of other than 4 components, nothing is packaged and no path is
\* returned; once the exports have returned the run is rejected without a
\* value, with the unexpected-output error logged when every export of the
\* batch completed, and with the tool's error logged when one of them raised
\* an error.
C5_MalformedFailsRun ==
  (IsXc /\ ExportMalformed) =>
    /\ ~PackagingStarted
    /\ outcome # "resolved"
    /\ ~ExportsRunning => (outcome = "rejected" /\ value = Undefined)
    /\ (\A i \in 1..Len(exports) : exports[i].status = "ok")
         => log = << ExportFormatError >>
    /\ ExportToolFailed => log = << ExecError >>

C5_Witness ==
  /\ IsXc
  /\ Len(exports) = 2
  /\ ExportMalformed
  /\ \E i \in 1..Len(exports) :
       /\ exports[i].status = "ok"
       /\ Includes(exports[i].stdout, EXPORT_SUCCEEDED)
       /\ ~MalformedSuccess(exports[i])
  /\ log = << ExportFormatError >>

\* last token of the first line of each export that reports success, in order
RECURSIVE SucceededArtifacts(_)
SucceededArtifacts(exps) ==
  IF exps = << >> THEN << >>
  ELSE LET tokens == Split(Split(Trim(Head(exps).stdout), "\n")[1], " ")
       IN  (IF Includes(Head(exps).stdout, EXPORT_SUCCEEDED)
              THEN << tokens[Len(tokens)] >> ELSE << >>)
           \o SucceededArtifacts(Tail(exps))

\* C6: in the xcarchive flow an export that completes without the marker
\* does not fail the run and contributes no item: when all exports completed
\* and none is malformed, packaging starts, and the items handed to the
\* packager are the last tokens of the first lines of the exports that
\* reported success, one per such export.
C6_ItemsAreSucceededExports ==
  IsXc =>
    /\ PackagingStarted =>
         /\ pkgItems = SucceededArtifacts(exports)
         /\ Len(pkgItems) =
              Cardinality({ i \in 1..Len(exports) :
                              Includes(exports[i].stdout, EXPORT_SUCCEEDED) })
    /\ ( /\ exports # << >>
         /\ \A i \in 1..Len(exports) :
              exports[i].status = "ok" /\ ~MalformedSuccess(exports[i]) )
         => PackagingStarted

C6_Witness ==
  /\ flow = "xc"
  /\ Len(exports) = 2
  /\ Includes(exports[1].stdout, EXPORT_SUCCEEDED)
  /\ ~Includes(exports[2].stdout, EXPORT_SUCCEEDED)
  /\ Len(pkgItems) = 1
  /\ outcome = "resolved"

\* C7: every rejection of signxcarchive (both versions) follows a logged
\* message and carries no error value.
C7_RejectionIsOpaque ==
  (IsXc /\ outcome = "rejected") => (value = Undefined /\ Len(log) = 1)

\* C8 as stated: in the xcarchive flow the run does not leave the export
\* stage, to packaging or to its rejected result, while an export of the
\* batch is running.
C8_BarrierBeforeAnyOutcome ==
  (IsXc /\ exports # << >> /\ pc # "export") => ~ExportsRunning

\* C8 amended: in the xcarchive flow all exports of a batch are started
\* together, one per element, and the run goes on to output parsing and
\* packaging only when every export has completed; when an export raises an
\* error the run is rejected at once, also while other exports are running.
C8_BarrierBeforePackaging ==
  IsXc =>
    /\ exports # << >> => (Len(exports) = Len(results) /\ Len(exports) >= 1)
    /\ pc = "export" => (ExportsRunning /\ ~ExportToolFailed)
    /\ (PackagingStarted \/ outcome = "resolved" \/ log = << ExportFormatError >>)
         => \A i \in 1..Len(exports) : exports[i].status = "ok"
    /\ (pc = "done" /\ ExportsRunning)
         => (outcome = "rejected" /\ log = << ExecError >>)

C8_Witness ==
  /\ flow = "xc"
  /\ Len(exports) = 2
  /\ zipResult.status = "running"

\* C9: in the ipa flow at most one tool invocation is in progress, it belongs
\* to the bundle at the loop index, and an invocation for a bundle has
\* started only when the re-sign command of every earlier bundle has
\* returned.
C9_SequencesDoNotOverlap ==
  flow = "ipa" =>
    /\ Cardinality(running) <= 1
    /\ \A r \in running : r.bundle = index
    /\ \A b \in { r.bundle : r \in running } \cup { c.bundle : c \in completed } :
         \A i \in 0..(b - 1) :
           /\ Returned(i, "resign", TRUE) \in completed
           /\ \A r \in running : r.bundle # i

C9_Witness ==
  /\ flow = "ipa"
  /\ Invocation(1, "unzip") \in running

C10_Keep(item) == item # EmptyStr /\ ~Includes(item, MACOSX)

\* C10: in the ipa flow the bundles are the located entries after filtering,
\* they are re-signed in that order, and the basenames handed to the packager
\* are those of the processed bundles, in the same order and number.
C10_OrderKept ==
  flow = "ipa" =>
    /\ (findResult.status = "ok" /\ findResult.stderr = EmptyStr)
         => results = SelectSeq(Split(findResult.stdout, "\n"), C10_Keep)
    /\ \A k \in 1..Len(signCmds) :
         /\ signCmds[k].bundle = k - 1
         /\ signCmds[k].file = Basename(Trim(results[k]))
    /\ PackagingStarted =>
         /\ Len(signCmds) = Len(results)
         /\ \A k \in 1..Len(results) : Returned(k - 1, "resign", TRUE) \in completed
         /\ Len(pkgItems) = Len(results)
         /\ \A k \in 1..Len(results) : pkgItems[k] = Basename(Trim(results[k]))
         /\ zipArgs = pkgItems

C10_Witness ==
  /\ flow = "ipa"
  /\ PackagingStarted
  /\ Len(results) = 2
  /\ pkgItems[1] # pkgItems[2]

\* exports that reported success
SucceededExports == { i \in 1..Len(exports) : Includes(exports[i].stdout, EXPORT_SUCCEEDED) }

\* last token of the first output line of export i
Artifact(i) ==
  LET tokens == Split(Split(Trim(exports[i].stdout), "\n")[1], " ")
  IN  tokens[Len(tokens)]

\* C11 as stated: in the xcarchive flow the succeeded items are collected in
\* the order in which the exports completed: the item of a succeeded export
\* is at the position given by the number of succeeded exports that completed
\* no later than it.
C11_CollectedInCompletionOrder ==
  (IsXc /\ PackagingStarted) =>
    \A i \in SucceededExports :
      pkgItems[Cardinality({ j \in SucceededExports : exports[j].seq <= exports[i].seq })]
        = Artifact(i)

\* C11 amended: in the xcarchive flow the succeeded items are collected in the
\* order of the exports in the batch (the order of the located elements),
\* whatever the order in which the exports completed: the item of a succeeded
\* export is at the position given by the number of succeeded exports located
\* no later than it.
C11_CollectedInBatchOrder ==
  (IsXc /\ PackagingStarted) =>
    \A i \in SucceededExports :
      pkgItems[Cardinality({ j \in SucceededExports : j <= i })] = Artifact(i)

C11_Witness ==
  /\ flow = "xc"
  /\ PackagingStarted
  /\ Len(exports) = 2
  /\ SucceededExports = {1, 2}
  /\ exports[2].seq < exports[1].seq
  /\ pkgItems = << Artifact(1), Artifact(2) >>
  /\ Artifact(1) # Artifact(2)

\* C12: no located entry whose path contains '__MACOSX' is handed to the
\* export engine (xcarchive flows) or to the re-sign loop (ipa flow).
C12_ShadowEntriesNeverProcessed ==
  /\ \A i \in 1..Len(exports) : ~Includes(exports[i].element, MACOSX)
  /\ \A i \in 1..Len(results) : ~Includes(results[i], MACOSX)

\* entries of the fetched identity list that contain the hint
MatchingEntries == { i \in 1..Len(cids) : Includes(cids[i], certIdentifier) }

\* identifier part of an identity entry: the text before its first space
EntryIdentifier(entry) == Trim(Split(entry, " ")[1])

\* C13: once the identity list has been fetched for a bundle,
\* uniqueSigningIdentifierForValue has returned the identifier of the first
\* list entry containing the hint, and it has returned undefined, without
\* raising an error, when no entry contains the hint or the list is empty.
C13_FirstMatchOrUndefined ==
  (flow = "ipa" /\ ResolutionRan) =>
    IF MatchingEntries = {}
      THEN signingIdentifier.kind = "undefined"
      ELSE LET first == CHOOSE i \in MatchingEntries : \A j \in MatchingEntries : i <= j
           IN  signingIdentifier = [kind |-> "value", v |-> EntryIdentifier(cids[first])]

StageOrder == << "Start", "Extracted", "Located", "Processed", "Packaged" >>

IsPrefix(s, t) == Len(s) <= Len(t) /\ \A i \in 1..Len(s) : s[i] = t[i]

\* every located bundle has been processed and none reported an error
AllBundlesProcessed ==
  IF flow = "ipa"
    THEN /\ \A i \in 0..(Len(results) - 1) : Returned(i, "resign", TRUE) \in completed
         /\ \A c \in completed : c.ok
         /\ running = {}
    ELSE /\ exports # << >>
         /\ \A i \in 1..Len(exports) : exports[i].status = "ok"

\* C14: the stages of a run are Start, Extracted, Located, Processed,
\* Packaged in that order with none skipped, or an initial part of them (not
\* the whole) followed by Failed; nothing follows Packaged or Failed; the zip
\* command is spawned only after extraction, location and the processing of
\* every bundle completed without error, and a run that failed before
\* packaging never spawns it.
C14_StagesInOrder ==
  /\ \/ IsPrefix(stages, StageOrder)
     \/ /\ Len(stages) >= 2
        /\ stages[Len(stages)] = "Failed"
        /\ IsPrefix(SubSeq(stages, 1, Len(stages) - 1), StageOrder)
        /\ Len(stages) - 1 < Len(StageOrder)
  /\ (pc = "done") <=>
       (stages # << >> /\ stages[Len(stages)] \in {"Packaged", "Failed"})
  /\ PackagingStarted =>
       /\ Len(stages) >= 4
       /\ SubSeq(stages, 1, 4) = SubSeq(StageOrder, 1, 4)
       /\ extractRes = "ok"
       /\ findResult.status = "ok" /\ findResult.stderr = EmptyStr
       /\ AllBundlesProcessed
  /\ zipResult.status = "running" => outcome = "pending"
  /\ (outcome = "rejected" /\ Len(stages) < 5) => ~PackagingStarted

\* an ipa run with two bundles that is packaged, and packaging has succeeded
C14_Witness ==
  /\ flow = "ipa"
  /\ Len(results) = 2
  /\ stages = StageOrder
  /\ zipResult.status = "ok"
  /\ outcome = "resolved"

RequestedNames == { keyNames[i] : i \in 1..Len(keyNames) }

\* C15: fetchKeychainValue spawns the lookups one at a time in the order of
\* keyNames; when every lookup has succeeded it resolves with an object that
\* has exactly one entry per requested name; when a lookup fails it rejects
\* with the 'Unable to find the keychain!' error, the failed lookup is the
\* last one spawned, and the rejection carries no mapping.
C15_AllNamesOrError ==
  /\ Len(kcLookups) <= Len(keyNames)
  /\ \A i \in 1..Len(kcLookups) :
       /\ kcLookups[i].name = keyNames[i]
       /\ i < Len(kcLookups) => kcLookups[i].status = "ok"
  /\ (kcOutcome = "pending") <=> (kcPc # "done")
  /\ kcOutcome = "resolved" <=>
       /\ kcPc = "done"
       /\ Len(kcLookups) = Len(keyNames)
       /\ \A i \in 1..Len(kcLookups) : kcLookups[i].status = "ok"
  /\ kcOutcome = "resolved" =>
       /\ kcValue.kind = "object"
       /\ DOMAIN kcValue.pairs = RequestedNames
  /\ (\E i \in 1..Len(kcLookups) : kcLookups[i].status = "error") =>
       /\ kcOutcome = "rejected"
       /\ kcValue = [kind |-> "error", msg |-> KeychainError, pairs |-> << >>]

\* the second of two lookups has failed
C15_Witness ==
  /\ Len(keyNames) = 2
  /\ keyNames[1] # keyNames[2]
  /\ Len(kcLookups) = 2
  /\ kcLookups[1].status = "ok"
  /\ kcLookups[2].status = "error"
  /\ kcOutcome = "rejected"

\* the zip command of packageForDelivery has returned
PackageForDeliveryReturned ==
  flow \in {"xc", "ipa"} /\ zipResult.status \in {"ok", "error"}

\* the tool printed no FAIL and nothing on its error stream
CleanSuccess ==
  /\ zipResult.status = "ok"
  /\ zipResult.stderr = EmptyStr
  /\ ~Includes(zipResult.stdout, FAIL)

\* the directory joined with an identifier generated after the workspace's
FreshArchivePath(p) ==
  \E id \in ShortIds :
    /\ PathJoin(DefaultWorkspace, id) # apath
    /\ p = PathJoin(pkgDir, id \o ZipExt)

NamesBasenames ==
  /\ Len(zipArgs) = Len(pkgItems)
  /\ \A i \in 1..Len(pkgItems) : zipArgs[i] = Basename(pkgItems[i])

\* C16 as stated: packageForDelivery names the basenames of the items to the
\* zip command, returns directory/<fresh id>.zip when the tool reports
\* success with an empty error stream, and in every other case fails with
\* 'Unable to create delivery package'.
C16_PathOrPackagingError ==
  PackageForDeliveryReturned =>
    /\ NamesBasenames
    /\ IF CleanSuccess
         THEN outcome = "resolved" /\ value.kind = "path" /\ FreshArchivePath(value.path)
         ELSE outcome = "rejected" /\ value = ErrorValue(PackageError)

\* C16 amended: as above, except that when the command line itself fails
\* (exec rejects) the failure carries the error of exec.
C16_PathOrError ==
  PackageForDeliveryReturned =>
    /\ NamesBasenames
    /\ IF CleanSuccess
         THEN outcome = "resolved" /\ value.kind = "path" /\ FreshArchivePath(value.path)
         ELSE /\ outcome = "rejected"
              /\ value.kind = "error"
              /\ value.path = EmptyStr
              /\ value.msg = IF zipResult.status = "ok" THEN PackageError ELSE ExecError

\* two exported items in a directory have been packaged by their basenames
C16_Witness ==
  /\ flow = "xc"
  /\ Len(pkgItems) = 2
  /\ zipArgs # pkgItems
  /\ CleanSuccess
  /\ outcome = "resolved"

\* errors the failed stage of an ipa run raised, read off the tool results
IpaStageErrors ==
  (IF ExtractFailed \/ findResult.status = "error" \/ zipResult.status = "error"
        \/ \E c \in completed : ~c.ok
     THEN { ExecError } ELSE {})
  \cup (IF findResult.status = "ok" /\ findResult.stderr # EmptyStr
          THEN { FindError } ELSE {})
  \cup (IF ResolutionRan /\ MatchingEntries = {}
          THEN { NoMatchError, TypeError } ELSE {})
  \cup (IF zipResult.status = "ok" /\ ~CleanSuccess THEN { PackageError } ELSE {})

\* C17: a rejected run of signipaarchive carries the error its failed stage
\* raised and logs nothing, whereas a rejected run of signxcarchive carries
\* no error.
C17_IpaCarriesErrorXcNone ==
  /\ (flow = "ipa" /\ outcome = "rejected") =>
       /\ value.kind = "error"
       /\ value.msg \in IpaStageErrors
       /\ log = << >>
  /\ (flow = "ipa" /\ IpaStageErrors # {}) => outcome = "rejected"
  /\ (IsXc /\ outcome = "rejected") => value.kind # "error"

\* the part of C17 about signipaarchive alone
C17_IpaCarriesError ==
  /\ (flow = "ipa" /\ outcome = "rejected") =>
       /\ value.kind = "error"
       /\ value.msg \in IpaStageErrors
       /\ log = << >>
  /\ (flow = "ipa" /\ IpaStageErrors # {}) => outcome = "rejected"

\* tools invoked for bundle j, running or returned
ToolsInvoked(j) ==
  { r.tool : r \in { x \in running : x.bundle = j } }
    \cup { c.tool : c \in { x \in completed : x.bundle = j } }

\* C19: in the ipa flow, when the identity list fetched for the bundle at
\* position index has no entry containing its hint, no re-sign command line
\* (rm of the signature, codesign, zip, mv) has been started for that bundle,
\* no tool at all has been started for a later bundle, no file of those
\* bundles has been moved into the workspace, and the re-sign command line of
\* every earlier bundle has returned successfully.
C19_FailedBundleUntouched ==
  (flow = "ipa" /\ ResolutionRan /\ MatchingEntries = {}) =>
    /\ "resign" \notin ToolsInvoked(index)
    /\ \A j \in (index + 1)..(Len(results) - 1) : ToolsInvoked(j) = {}
    /\ \A k \in 1..Len(signCmds) : signCmds[k].bundle < index
    /\ \A f \in moved : f.bundle < index
    /\ \A j \in 0..(index - 1) :
         /\ Returned(j, "resign", TRUE) \in completed
         /\ \E k \in 1..Len(signCmds) : signCmds[k].bundle = j
    /\ moved # {} <=> index > 0

\* resolution has failed for the second of three bundles
C19_Witness ==
  /\ flow = "ipa"
  /\ Len(results) = 3
  /\ index = 1
  /\ ResolutionRan
  /\ cids # << >>
  /\ MatchingEntries = {}
  /\ Returned(0, "resign", TRUE) \in completed
  /\ outcome = "rejected"

\* C20: in the ipa flow, once packaging has started every located bundle has
\* its own re-signed file in the workspace directory, and the number of
\* distinct files named to the zip command equals the number of bundles.
C20_OneFilePerBundle ==
  (flow = "ipa" /\ PackagingStarted) =>
    /\ \A j \in 0..(Len(results) - 1) : \E f \in moved : f.bundle = j
    /\ Cardinality({ zipArgs[i] : i \in 1..Len(zipArgs) }) = Len(results)

====
